---------------------------- MODULE Spec2Model ----------------------------
(***************************************************************************)
(* Model of md-to-pdf's conversion pipeline                                *)
(* (src/src/lib/get-marked-with-highlighter.ts): the process-wide KaTeX    *)
(* stylesheet cache (loadKatexCss), the per-configuration math activation  *)
(* (ensureKatexSupport) and the configuration resolution of convertMdToPdf.*)
(*                                                                         *)
(* JavaScript values are tagged records of one shape so that values of     *)
(* different JavaScript types can be compared.  Stylesheet text is a       *)
(* sequence of tokens: plain text, url(...) references and data: URIs.     *)
(***************************************************************************)
EXTENDS Integers, Sequences, FiniteSets, TLC

(***************************************************************************)
(* Bounds of the model.                                                    *)
(***************************************************************************)
\* longest stylesheet text (in tokens) drawn in the stylesheet-rewriting runs
MaxCssLen == 3

\* the concurrent conversions (calls of convertMdToPdf in one process)
Convs == {"c1", "c2"}

(***************************************************************************)
(* Sequence helpers.                                                       *)
(***************************************************************************)
Range(s) == {s[i] : i \in DOMAIN s}

\* the elements of s in order of first appearance (Array.from(new Set(s)))
RECURSIVE Dedup(_)
Dedup(s) ==
    IF s = <<>> THEN <<>>
    ELSE LET init == Dedup(SubSeq(s, 1, Len(s) - 1))
             last == s[Len(s)]
         IN  IF last \in Range(init) THEN init ELSE Append(init, last)

\* the sequences over S of length at most n
SeqsUpTo(S, n) == UNION {[1..k -> S] : k \in 0..n}

\* number of places at which sub occurs in s as a contiguous block
Occurrences(sub, s) ==
    Cardinality({i \in 1..(Len(s) - Len(sub) + 1) : SubSeq(s, i, i + Len(sub) - 1) = sub})

(***************************************************************************)
(* Stylesheet text.                                                        *)
(***************************************************************************)
NoPath == [dir |-> "", stem |-> "", ext |-> ""]

Path(dir, stem, ext) == [dir |-> dir, stem |-> stem, ext |-> ext]

\* a run of characters holding no url(...) at all
TextTok(s) ==
    [k |-> "text", s |-> s, open |-> "", close |-> "", path |-> NoPath,
     mime |-> "", data |-> <<>>]

\* url(<open><dir>/<stem><ext><close>): open and close are "", "'" or "\""
UrlTok(open, path, close) ==
    [k |-> "url", s |-> "", open |-> open, close |-> close, path |-> path,
     mime |-> "", data |-> <<>>]

\* url("data:<mime>;base64,<data>")
DataTok(mime, data) ==
    [k |-> "data", s |-> "", open |-> "\"", close |-> "\"", path |-> NoPath,
     mime |-> mime, data |-> data]

Newline == TextTok("\n")

(***************************************************************************)
(* getMimeType and the pieces of path / Buffer it is used with.            *)
(***************************************************************************)
\* extname(absoluteFontPath): the extension of the path's last segment
extname(path) == path.ext

\* String.prototype.toLowerCase on the extensions that occur
toLowerCase(ext) ==
    CASE ext = ".WOFF2" -> ".woff2"
      [] ext = ".WOFF"  -> ".woff"
      [] ext = ".TTF"   -> ".ttf"
      [] OTHER          -> ext

getMimeType(extension) ==
    CASE extension = ".woff2" -> "font/woff2"
      [] extension = ".woff"  -> "font/woff"
      [] extension = ".ttf"   -> "font/ttf"
      [] extension = ".otf"   -> "font/otf"
      [] extension = ".eot"   -> "application/vnd.ms-fontobject"
      [] extension = ".svg"   -> "image/svg+xml"
      [] OTHER                -> "application/octet-stream"

\* Buffer.toString('base64'): 3 bytes -> 4 sextets, the last group padded
\* with '=' (written 64)
RECURSIVE toBase64(_)
toBase64(bytes) ==
    IF bytes = <<>> THEN <<>>
    ELSE IF Len(bytes) = 1 THEN
        << bytes[1] \div 4, (bytes[1] % 4) * 16, 64, 64 >>
    ELSE IF Len(bytes) = 2 THEN
        << bytes[1] \div 4, (bytes[1] % 4) * 16 + bytes[2] \div 16,
           (bytes[2] % 16) * 4, 64 >>
    ELSE
        << bytes[1] \div 4, (bytes[1] % 4) * 16 + bytes[2] \div 16,
           (bytes[2] % 16) * 4 + bytes[3] \div 64, bytes[3] % 64 >>
        \o toBase64(SubSeq(bytes, 4, Len(bytes)))

\* the bytes of the font files of the katex distribution, by file
FontData(path) ==
    CASE path.stem = "a" -> <<119, 79, 70, 50>>
      [] path.stem = "b" -> <<119, 79>>
      [] OTHER           -> <<0>>


(***************************************************************************)
(* loadKatexCss, lines 73-96: the references found and their rewriting.    *)
(***************************************************************************)
Quotes == {"", "'", "\""}

\* a match of /url\((['"]?)(fonts\/[^'")]+)\1\)/: the same quote (or none)
\* on both sides and a non-empty path under fonts/
IsFontMatch(tok) ==
    /\ tok.k = "url"
    /\ tok.open \in Quotes
    /\ tok.close = tok.open
    /\ tok.path.dir = "fonts"
    /\ tok.path.stem # ""

\* lines 75-77: match[2] of every match, in order
RECURSIVE matchAll(_)
matchAll(css) ==
    IF css = <<>> THEN <<>>
    ELSE (IF IsFontMatch(Head(css)) THEN << Head(css).path >> ELSE <<>>)
         \o matchAll(Tail(css))

\* lines 73-79: the distinct referenced paths, in order of first appearance
fontMatches(css) == Dedup(matchAll(css))

\* line 85: the data URI that replaces a reference to fontRelativePath
dataUri(fontRelativePath) ==
    DataTok(getMimeType(toLowerCase(extname(fontRelativePath))),
            toBase64(FontData(fontRelativePath)))

\* css.replace(pattern, dataUri) with a global pattern that is the literal
\* text url(<quote><path><quote>)
replace(css, quote, fontRelativePath, uri) ==
    [i \in DOMAIN css |->
        IF css[i] = UrlTok(quote, fontRelativePath, quote) THEN uri ELSE css[i]]

\* a faulty variant of patterns: only the unquoted form is replaced
patternsUnquotedOnly == << "" >>

\* lines 87-91: the unquoted, the single-quoted and the double-quoted form
patterns == << "", "'", "\"" >>

RECURSIVE replaceEach(_, _, _, _)
replaceEach(css, quotes, fontRelativePath, uri) ==
    IF quotes = <<>> THEN css
    ELSE replaceEach(replace(css, Head(quotes), fontRelativePath, uri),
                     Tail(quotes), fontRelativePath, uri)

\* lines 82-95: one turn of the loop over fontMatches (after the font is read)
inlineFont(css, fontRelativePath) ==
    replaceEach(css, patterns, fontRelativePath, dataUri(fontRelativePath))

(***************************************************************************)
(* JavaScript values of the configuration.                                 *)
(***************************************************************************)
Undef == [t |-> "undefined", s |-> "", xs |-> <<>>]

Str(s) == [t |-> "string", s |-> s, xs |-> <<>>]

Bool(b) == [t |-> "boolean", s |-> IF b THEN "true" ELSE "false", xs |-> <<>>]

\* a number, by its decimal text
Num(s) == [t |-> "number", s |-> s, xs |-> <<>>]

Arr(xs) == [t |-> "array", s |-> "", xs |-> xs]

\* a marked extension object: xs holds the names (strings) of the entries of
\* its `extensions` array
ExtObj(names) == [t |-> "object", s |-> "extensions", xs |-> names]

\* an object without an `extensions` array (a margin object carries the
\* shorthand it was built from in xs)
PlainObj(xs) == [t |-> "object", s |-> "", xs |-> xs]

\* Boolean(v)
Truthy(v) ==
    /\ v.t # "undefined"
    /\ ~(v.t = "string" /\ v.s = "")
    /\ ~(v.t = "boolean" /\ v.s = "false")
    /\ ~(v.t = "number" /\ v.s = "0")

isArray(v) == v.t = "array"

\* css text: undefined or a string of tokens
NoText == [t |-> "undefined", toks |-> <<>>]

Text(toks) == [t |-> "string", toks |-> toks]

TextTruthy(c) == c.t = "string" /\ c.toks # <<>>

(***************************************************************************)
(* isKatexExtension, lines 37-45.                                          *)
(***************************************************************************)
isKatexExtension(extension) ==
    IF ~Truthy(extension) \/ extension.t # "object" THEN FALSE
    ELSE /\ extension.s = "extensions"
         /\ \E i \in DOMAIN extension.xs : extension.xs[i] = Str("inlineKatex")

\* markedKatex(options), line 111: the extension object of
\* marked-katex-extension, with its inline and its block rule
markedKatex == ExtObj(<< Str("inlineKatex"), Str("blockKatex") >>)

(***************************************************************************)
(* Configurations.  A configuration object holds every option (an option   *)
(* that is not set reads as undefined); the front matter and the           *)
(* invocation arguments are partial: functions on the keys they carry.     *)
(***************************************************************************)
arrayOptions == << "body_class", "script", "stylesheet", "marked_extensions" >>

ScalarKeys == {"dest", "as_html", "devtools", "math_engine", "highlight_style"}

ConfigKeys == ScalarKeys \cup {"css", "pdf_options"} \cup Range(arrayOptions)

PdfFields ==
    {"scale", "format", "headerTemplate", "footerTemplate",
     "displayHeaderFooter", "margin"}

\* an options object none of whose fields is set
NoPdfOptions == [f \in PdfFields |-> Undef]

PdfOptions(set) == [f \in PdfFields |-> IF f \in DOMAIN set THEN set[f] ELSE Undef]

\* { ...a, ...b } on options objects: a field of b that is set wins
SpreadPdf(a, b) == [f \in PdfFields |-> IF b[f] # Undef THEN b[f] ELSE a[f]]

UnsetValue(key) ==
    CASE key = "css"         -> NoText
      [] key = "pdf_options" -> NoPdfOptions
      [] OTHER               -> Undef

EmptyConfig == [key \in ConfigKeys |-> UnsetValue(key)]

\* a configuration made of the options given, every other one unset
Config(set) ==
    [key \in ConfigKeys |-> IF key \in DOMAIN set THEN set[key] ELSE UnsetValue(key)]

\* { ...config, ...layer }
Spread(config, layer) ==
    [key \in ConfigKeys |-> IF key \in DOMAIN layer THEN layer[key] ELSE config[key]]

\* the front matter that could not be parsed (an Error instance)
FrontMatterError == [error |-> Bool(TRUE)]

IsError(frontMatterConfig) == "error" \in DOMAIN frontMatterConfig

(***************************************************************************)
(* convertMdToPdf, lines 147-181: the resolution of the configuration.     *)
(***************************************************************************)
\* lines 151-155
mergeFrontMatter(config, frontMatterConfig) ==
    [Spread(config, frontMatterConfig) EXCEPT
        !["pdf_options"] =
            SpreadPdf(config["pdf_options"],
                      IF "pdf_options" \in DOMAIN frontMatterConfig
                      THEN frontMatterConfig["pdf_options"]
                      ELSE NoPdfOptions)]

\* lines 158-162
inferDisplayHeaderFooter(config) ==
    LET o == config["pdf_options"]
    IN  IF (Truthy(o["headerTemplate"]) \/ Truthy(o["footerTemplate"]))
           /\ o["displayHeaderFooter"] = Undef
        THEN [config EXCEPT !["pdf_options"]["displayHeaderFooter"] = Bool(TRUE)]
        ELSE config

\* a faulty variant of sanitize: a falsy value is wrapped too
sanitizeKeepingFalsy(value) ==
    IF ~isArray(value) THEN Arr(<< value >>) ELSE value

\* lines 168-170, for one option
sanitize(value) ==
    IF ~isArray(value)
    THEN Arr(IF Truthy(value) THEN << value >> ELSE <<>>)
    ELSE value

\* lines 164-171
sanitizeArrayOptions(config) ==
    [key \in ConfigKeys |->
        IF key \in Range(arrayOptions) THEN sanitize(config[key]) ELSE config[key]]

\* line 173
jsonArgs ==
    {"--marked-options", "--pdf-options", "--launch-options", "--math-engine-options"}

\* the arguments modelled, in the order Object.entries yields them
ArgKeys ==
    << "--dest", "--as-html", "--math-engine", "--highlight-style", "--css",
       "--stylesheet", "--body-class", "--pdf-options" >>

\* line 178: argKey.slice(2).replace(/-/g, '_')
keyOf(argKey) ==
    CASE argKey = "--dest"            -> "dest"
      [] argKey = "--as-html"         -> "as_html"
      [] argKey = "--math-engine"     -> "math_engine"
      [] argKey = "--highlight-style" -> "highlight_style"
      [] argKey = "--css"             -> "css"
      [] argKey = "--stylesheet"      -> "stylesheet"
      [] argKey = "--body-class"      -> "body_class"
      [] argKey = "--pdf-options"     -> "pdf_options"

\* a JSON text: one that JSON.parse turns into `value`, or one it rejects
Json(value) == [valid |-> TRUE, value |-> value]

BadJson == [valid |-> FALSE, value |-> NoPdfOptions]

JSONparse(text) == text.value

\* the arguments of args, in order, up to the first that JSON.parse rejects
RECURSIVE ArgsBeforeThrow(_, _)
ArgsBeforeThrow(args, keys) ==
    IF keys = <<>> THEN <<>>
    ELSE IF Head(keys) \notin DOMAIN args THEN ArgsBeforeThrow(args, Tail(keys))
    ELSE IF Head(keys) \in jsonArgs /\ ~args[Head(keys)].valid THEN <<>>
    ELSE << Head(keys) >> \o ArgsBeforeThrow(args, Tail(keys))

\* whether the loop of lines 176-181 ends in a SyntaxError
ArgsThrow(args) == \E k \in DOMAIN args : k \in jsonArgs /\ ~args[k].valid

\* line 180: the value stored for one argument
mergeArgValue(argKey, argValue) ==
    IF argKey \in jsonArgs THEN JSONparse(argValue) ELSE argValue

\* lines 176-181: every argument the loop reaches is stored under its key
mergeArgs(config, args) ==
    LET done == Range(ArgsBeforeThrow(args, ArgKeys))
    IN  [key \in ConfigKeys |->
            IF \E a \in done : keyOf(a) = key
            THEN LET a == CHOOSE a \in done : keyOf(a) = key
                 IN  mergeArgValue(a, args[a])
            ELSE config[key]]

(***************************************************************************)
(* convertMdToPdf, lines 185-202, and the collaborators it calls.          *)
(***************************************************************************)
\* getMarginObject(margin) of ./helpers: the four sides of a shorthand
getMarginObject(margin) == PlainObj(<< margin >>)

\* lines 186-188
sanitizeMargin(config) ==
    IF config["pdf_options"]["margin"].t = "string"
    THEN [config EXCEPT !["pdf_options"]["margin"] =
              getMarginObject(config["pdf_options"]["margin"])]
    ELSE config

\* getOutputFilePath(mdFilePath, extension) of ./get-output-file-path: the
\* sibling of the markdown file with the extension given
getOutputFilePath(mdFilePath, extension) ==
    CASE extension = "html" -> Str("doc.html")
      [] extension = "pdf"  -> Str("doc.pdf")

\* a faulty variant of setDest: as_html is not consulted
destAlwaysPdf(config, input) ==
    IF config["dest"] = Undef
    THEN [config EXCEPT !["dest"] =
              IF input = "path" THEN getOutputFilePath("doc.md", "pdf")
              ELSE Str("stdout")]
    ELSE config

\* lines 191-193; input is "path" or "content"
setDest(config, input) ==
    IF config["dest"] = Undef
    THEN [config EXCEPT !["dest"] =
              IF input = "path"
              THEN getOutputFilePath("doc.md",
                       IF Truthy(config["as_html"]) THEN "html" ELSE "pdf")
              ELSE Str("stdout")]
    ELSE config

\* lines 195-200: <highlight.js>/styles/<highlight_style>.css
highlightStylesheet(config) ==
    CASE config["highlight_style"] = Str("github")  -> Str("/hljs/styles/github.css")
      [] config["highlight_style"] = Str("monokai") -> Str("/hljs/styles/monokai.css")
      [] OTHER                                      -> Str("/hljs/styles/undefined.css")

\* [...value]: the elements of an array, the characters of a string
Iterate(value) ==
    CASE value.t = "array"       -> value.xs
      [] value = Str("x.css")    -> << Str("x"), Str("."), Str("c"), Str("s"), Str("s") >>
      [] value = Str("")         -> << >>
      [] OTHER                   -> << value >>

\* whether [...value] throws (value is not iterable)
NotIterable(value) == value.t \notin {"array", "string"}

\* line 202
addHighlightStylesheet(config) ==
    [config EXCEPT !["stylesheet"] =
        Arr(Dedup(Iterate(config["stylesheet"]) \o << highlightStylesheet(config) >>))]

(***************************************************************************)
(* State.                                                                  *)
(***************************************************************************)
VARIABLES
    katexFile,            \* katex/dist/katex.min.css as it is on disk
    cachedKatexCss,       \* line 35
    configsWithKatexCss,  \* line 34: the objects in the WeakSet
    heap,                 \* the configuration objects, by identity
    pc,                   \* where each call of convertMdToPdf stands
    call,                 \* the arguments of each call and its front matter
    cfg,                  \* the object the call's `config` refers to
    css,                  \* loadKatexCss: the local `css` of the call's load
    todo,                 \* loadKatexCss: the fontMatches still to inline
    katexCss,             \* ensureKatexSupport: the stylesheet awaited, l. 115
    reads,                \* the files each call has read, in order
    merged,               \* the call's configuration after line 181
    handed,               \* the configuration given to the renderers, l. 204-208
    outcome,              \* how the call ended and what it wrote
    overlapped            \* some call began while another was in progress

vars ==
    << katexFile, cachedKatexCss, configsWithKatexCss, heap, pc, call, cfg, css,
       todo, katexCss, reads, merged, handed, outcome, overlapped >>

\* the caller's configuration object and the copy each call may make
ObjIds == {"caller"} \cup Convs

NoArgs == [k \in {} |-> Undef]

NoCall == [input |-> "", frontMatter |-> FrontMatterError, args |-> NoArgs,
           defaults |-> EmptyConfig]

NoOutcome ==
    [error |-> "", written |-> "", filename |-> Undef, warned |-> FALSE,
     rendered |-> FALSE, output |-> [some |-> FALSE, filename |-> Undef]]

InFlight(p) == pc[p] \notin {"idle", "done", "failed"}

\* line 71
katexCssPath == Path("katex/dist", "katex.min", ".css")

(***************************************************************************)
(* ensureKatexSupport, lines 103-115, up to its await: what it does to the *)
(* configuration and where the call stands afterwards.                     *)
(***************************************************************************)
hasKatexExtension(config) ==
    \E i \in DOMAIN config["marked_extensions"].xs :
        isKatexExtension(config["marked_extensions"].xs[i])

\* a faulty variant of appendKatexExtension: the extension list is not
\* searched first
appendKatexExtensionAlways(config) ==
    [config EXCEPT !["marked_extensions"] = Arr(@.xs \o << markedKatex >>)]

\* lines 108-112
appendKatexExtension(config) ==
    IF ~hasKatexExtension(config)
    THEN [config EXCEPT !["marked_extensions"] = Arr(@.xs \o << markedKatex >>)]
    ELSE config

\* a faulty variant of mathRequested: math_engine is not consulted
mathRequestedAlways(config) == TRUE

\* line 104
mathRequested(config) == config["math_engine"] = Str("katex")

\* line 108 throws when marked_extensions has no method `some`
someThrows(config) == ~isArray(config["marked_extensions"])

\* a faulty variant of cacheHit: the cache is never consulted
cacheHitNever(cache) == FALSE

\* line 67
cacheHit(cache) == TextTruthy(cache)

\* a faulty variant of needsCss: the marker set is not consulted
needsCssIgnoringMarker(id, marked) == TRUE

\* line 114
needsCss(id, marked) == id \notin marked

\* the place the call reaches when ensureKatexSupport starts on `config`,
\* the object `id`
ensureEntry(config, id) ==
    IF ~mathRequested(config) THEN "resume"
    ELSE IF someThrows(config) THEN "failed"
    ELSE IF ~needsCss(id, configsWithKatexCss) THEN "resume"
    ELSE IF cacheHit(cachedKatexCss) THEN "append_css"
    ELSE "read_css"

ensureConfig(config) ==
    IF mathRequested(config) /\ ~someThrows(config)
    THEN appendKatexExtension(config)
    ELSE config

(***************************************************************************)
(* convertMdToPdf, lines 137-183: from the call to the first await of      *)
(* ensureKatexSupport.  `in` is the input with its front matter and the    *)
(* invocation arguments.                                                   *)
(***************************************************************************)
\* the object `config` refers to after lines 148-156
configObject(p, frontMatterConfig) ==
    IF IsError(frontMatterConfig) THEN "caller" ELSE p

\* a faulty variant of resolve: lines 158-162 are left out
resolveSkippingInference(config, in) ==
    LET c1 == IF IsError(in.frontMatter) THEN config
              ELSE mergeFrontMatter(config, in.frontMatter)
    IN  mergeArgs(sanitizeArrayOptions(c1), in.args)

\* a faulty variant of resolve: the arguments are merged before the front
\* matter, which then wins
resolveArgsFirst(config, in) ==
    LET c0 == mergeArgs(config, in.args)
        c1 == IF IsError(in.frontMatter) THEN c0
              ELSE mergeFrontMatter(c0, in.frontMatter)
    IN  sanitizeArrayOptions(inferDisplayHeaderFooter(c1))

\* the configuration after line 181
resolve(config, in) ==
    LET c1 == IF IsError(in.frontMatter) THEN config
              ELSE mergeFrontMatter(config, in.frontMatter)
    IN  mergeArgs(sanitizeArrayOptions(inferDisplayHeaderFooter(c1)), in.args)

Convert(p, Inputs) ==
    /\ pc[p] = "idle"
    /\ \E in \in Inputs :
        LET id == configObject(p, in.frontMatter)
            c  == resolve(heap["caller"], in)
            to == IF ArgsThrow(in.args) THEN "failed" ELSE ensureEntry(c, id)
        IN  /\ call' = [call EXCEPT ![p] =
                   [input |-> in.input, frontMatter |-> in.frontMatter,
                    args |-> in.args, defaults |-> heap["caller"]]]
            /\ cfg' = [cfg EXCEPT ![p] = id]
            /\ merged' = [merged EXCEPT ![p] = c]
            /\ heap' = [heap EXCEPT ![id] =
                   IF ArgsThrow(in.args) THEN c ELSE ensureConfig(c)]
            /\ katexCss' = [katexCss EXCEPT ![p] =
                   IF to = "append_css" THEN cachedKatexCss ELSE @]
            /\ pc' = [pc EXCEPT ![p] = to]
            /\ outcome' = [outcome EXCEPT ![p] =
                   [@ EXCEPT !.warned = IsError(in.frontMatter),
                             !.error = IF to # "failed" THEN ""
                                       ELSE IF ArgsThrow(in.args) THEN "SyntaxError"
                                       ELSE "TypeError"]]
    /\ overlapped' = (overlapped \/ \E q \in Convs \ {p} : InFlight(q))
    /\ UNCHANGED << katexFile, cachedKatexCss, configsWithKatexCss, css, todo,
                    reads, handed >>

(***************************************************************************)
(* loadKatexCss, lines 71-100, between its awaits.                         *)
(***************************************************************************)
\* lines 98-100, and line 115 receiving the result
store(p, text) ==
    /\ cachedKatexCss' = Text(text)
    /\ katexCss' = [katexCss EXCEPT ![p] = Text(text)]
    /\ pc' = [pc EXCEPT ![p] = "append_css"]

\* a faulty variant of ioError: the failed read is skipped and the load
\* goes on to hand over what it has
ioErrorSkipped(p) ==
    /\ pc' = [pc EXCEPT ![p] = "append_css"]
    /\ UNCHANGED outcome

\* an awaited file operation rejects, and so does the call
ioError(p) ==
    /\ pc' = [pc EXCEPT ![p] = "failed"]
    /\ outcome' = [outcome EXCEPT ![p] = [@ EXCEPT !.error = "IOError"]]

\* line 72 completes: the stylesheet is read (or the read fails), and the
\* loop starts
ReadCss(p) ==
    /\ pc[p] = "read_css"
    /\ \E ok \in BOOLEAN :
        IF ok
        THEN /\ reads' = [reads EXCEPT ![p] = Append(@, katexCssPath)]
             /\ IF fontMatches(katexFile) = <<>>
                THEN /\ store(p, katexFile)
                     /\ UNCHANGED << css, todo >>
                ELSE /\ css' = [css EXCEPT ![p] = katexFile]
                     /\ todo' = [todo EXCEPT ![p] = fontMatches(katexFile)]
                     /\ pc' = [pc EXCEPT ![p] = "read_font"]
                     /\ UNCHANGED << cachedKatexCss, katexCss >>
             /\ UNCHANGED outcome
        ELSE /\ ioError(p)
             /\ UNCHANGED << reads, css, todo, cachedKatexCss, katexCss >>
    /\ UNCHANGED << katexFile, configsWithKatexCss, heap, call, cfg, merged,
                    handed, overlapped >>

\* line 83 completes for the next font: it is inlined, and after the last
\* one the result is cached and returned
ReadFont(p) ==
    /\ pc[p] = "read_font"
    /\ \E ok \in BOOLEAN :
        IF ok
        THEN LET font == Head(todo[p])
                 text == inlineFont(css[p], font)
             IN  /\ reads' = [reads EXCEPT ![p] = Append(@, font)]
                 /\ css' = [css EXCEPT ![p] = text]
                 /\ todo' = [todo EXCEPT ![p] = Tail(@)]
                 /\ IF Tail(todo[p]) = <<>>
                    THEN store(p, text)
                    ELSE UNCHANGED << cachedKatexCss, katexCss, pc >>
                 /\ UNCHANGED outcome
        ELSE /\ ioError(p)
             /\ UNCHANGED << reads, css, todo, cachedKatexCss, katexCss >>
    /\ UNCHANGED << katexFile, configsWithKatexCss, heap, call, cfg, merged,
                    handed, overlapped >>

(***************************************************************************)
(* ensureKatexSupport, lines 115-118: the stylesheet has arrived.          *)
(***************************************************************************)
\* line 116
appendCss(config, sheet) ==
    [config EXCEPT !["css"] =
        IF TextTruthy(@) THEN Text(@.toks \o << Newline >> \o sheet.toks) ELSE sheet]

AppendCss(p) ==
    /\ pc[p] = "append_css"
    /\ heap' = [heap EXCEPT ![cfg[p]] = appendCss(@, katexCss[p])]
    /\ configsWithKatexCss' = configsWithKatexCss \cup {cfg[p]}
    /\ pc' = [pc EXCEPT ![p] = "resume"]
    /\ UNCHANGED << katexFile, cachedKatexCss, call, cfg, css, todo, katexCss,
                    reads, merged, handed, outcome, overlapped >>

(***************************************************************************)
(* convertMdToPdf, lines 185-208: ensureKatexSupport has returned.         *)
(***************************************************************************)
\* a faulty variant of finalize: the margin is not normalised
finalizeKeepingMargin(config, input) ==
    addHighlightStylesheet(setDest(config, input))

\* lines 186-202
finalize(config, input) ==
    addHighlightStylesheet(setDest(sanitizeMargin(config), input))

Resume(p) ==
    /\ pc[p] = "resume"
    /\ IF NotIterable(heap[cfg[p]]["stylesheet"])
       THEN /\ heap' = [heap EXCEPT ![cfg[p]] = setDest(sanitizeMargin(@), call[p].input)]
            /\ pc' = [pc EXCEPT ![p] = "failed"]
            /\ outcome' = [outcome EXCEPT ![p] = [@ EXCEPT !.error = "TypeError"]]
            /\ UNCHANGED handed
       ELSE /\ heap' = [heap EXCEPT ![cfg[p]] = finalize(@, call[p].input)]
            /\ handed' = [handed EXCEPT ![p] = heap'[cfg[p]]]
            /\ pc' = [pc EXCEPT ![p] = "render"]
            /\ UNCHANGED outcome
    /\ UNCHANGED << katexFile, cachedKatexCss, configsWithKatexCss, call, cfg,
                    css, todo, katexCss, reads, merged, overlapped >>

(***************************************************************************)
(* convertMdToPdf, lines 208-226: generateOutput has settled.              *)
(***************************************************************************)
\* what generateOutput may resolve to: nothing, or the content with the
\* destination it was produced for (none when there is none to write)
NoOutput == [some |-> FALSE, filename |-> Undef]

Output(filename) == [some |-> TRUE, filename |-> filename]

Outputs(config) ==
    {NoOutput, Output(config["dest"]), Output(Undef), Output(Str(""))}

\* a faulty variant of noOutputError: devtools is not consulted
noOutputErrorGeneric(config) ==
    IF Truthy(config["as_html"]) THEN "Failed to create HTML."
    ELSE "Failed to create PDF."

\* lines 210-216: the error thrown for no output
noOutputError(config) ==
    IF Truthy(config["devtools"]) THEN "No file is generated with --devtools."
    ELSE IF Truthy(config["as_html"]) THEN "Failed to create HTML."
    ELSE "Failed to create PDF."

Render(p) ==
    /\ pc[p] = "render"
    /\ \E output \in Outputs(heap[cfg[p]]) :
        IF ~output.some
        THEN /\ pc' = [pc EXCEPT ![p] = "failed"]
             /\ outcome' = [outcome EXCEPT ![p] =
                    [@ EXCEPT !.error = noOutputError(heap[cfg[p]]),
                              !.rendered = TRUE, !.output = output]]
        ELSE IF ~Truthy(output.filename)
        THEN /\ pc' = [pc EXCEPT ![p] = "done"]
             /\ outcome' = [outcome EXCEPT ![p] =
                    [@ EXCEPT !.written = "nowhere",
                              !.rendered = TRUE, !.output = output]]
        ELSE IF output.filename = Str("stdout")
        THEN /\ pc' = [pc EXCEPT ![p] = "done"]
             /\ outcome' = [outcome EXCEPT ![p] =
                    [@ EXCEPT !.written = "stdout", !.filename = output.filename,
                              !.rendered = TRUE, !.output = output]]
        ELSE /\ pc' = [pc EXCEPT ![p] = "write"]
             /\ outcome' = [outcome EXCEPT ![p] =
                    [@ EXCEPT !.filename = output.filename,
                              !.rendered = TRUE, !.output = output]]
    /\ UNCHANGED << katexFile, cachedKatexCss, configsWithKatexCss, heap, call,
                    cfg, css, todo, katexCss, reads, merged, handed, overlapped >>

\* line 222 completes: the file is written, or the write fails
Write(p) ==
    /\ pc[p] = "write"
    /\ \E ok \in BOOLEAN :
        IF ok
        THEN /\ pc' = [pc EXCEPT ![p] = "done"]
             /\ outcome' = [outcome EXCEPT ![p] = [@ EXCEPT !.written = "file"]]
        ELSE ioError(p)
    /\ UNCHANGED << katexFile, cachedKatexCss, configsWithKatexCss, heap, call,
                    cfg, css, todo, katexCss, reads, merged, handed, overlapped >>

(***************************************************************************)
(* The stylesheets, configurations and inputs the runs draw from.          *)
(***************************************************************************)
FontA == Path("fonts", "a", ".woff2")
FontB == Path("fonts", "b", ".woff")
FontC == Path("fonts", "c", ".TTF")
FontD == Path("fonts", "d", ".bin")

\* a stylesheet with the same font referenced twice, in two quote styles
KatexCss ==
    << TextTok("@font-face{src:"), UrlTok("", FontA, ""), UrlTok("'", FontB, "'"),
       UrlTok("\"", FontA, "\""), TextTok(".katex{}") >>

\* the tokens the stylesheet-rewriting runs build stylesheets from: the
\* three quote styles, four extensions, a reference with unbalanced quotes
\* and a reference that is not under fonts/
CssTokens ==
    { TextTok(".katex{}"),
      UrlTok("", FontA, ""), UrlTok("'", FontA, "'"), UrlTok("\"", FontA, "\""),
      UrlTok("'", FontB, "'"), UrlTok("", FontC, ""), UrlTok("\"", FontD, "\""),
      UrlTok("'", FontB, "\""), UrlTok("", Path("img", "i", ".svg"), "") }

CssFiles == SeqsUpTo(CssTokens, MaxCssLen) \ { <<>> }

UserCss == Text(<< TextTok("body{}") >>)

OtherExt == ExtObj(<< Str("footnote") >>)

\* the defaults of ./config, as far as this module reads them
defaultConfig ==
    Config([ as_html |-> Bool(FALSE), devtools |-> Bool(FALSE),
             highlight_style |-> Str("github"), css |-> Text(<<>>),
             pdf_options |-> PdfOptions([ scale |-> Num("1"), format |-> Str("A4"),
                                          margin |-> Str("30mm") ]),
             body_class |-> Arr(<<>>), script |-> Arr(<<>>),
             stylesheet |-> Arr(<< Str("markdown.css") >>),
             marked_extensions |-> Arr(<<>>) ])

With(config, set) == Spread(config, set)

WithPdf(config, set) ==
    [config EXCEPT !["pdf_options"] = SpreadPdf(@, PdfOptions(set))]

\* the caller's configuration in the runs of concurrent conversions
ConcDefaults ==
    { With(defaultConfig, [math_engine |-> Str("katex"), css |-> UserCss]),
      With(defaultConfig, [marked_extensions |-> Arr(<< OtherExt, markedKatex >>),
                           dest |-> Str("out.pdf")]) }

ConcInputs ==
    [ input : {"content"},
      frontMatter : { FrontMatterError, NoArgs, [math_engine |-> Str("katex")] },
      args : { NoArgs, [k \in {"--css"} |-> Text(<< TextTok("p{}") >>)],
               [k \in {"--math-engine"} |-> Str("katex")] } ]

\* the caller's configuration in the runs of one conversion
MergeDefaults ==
    { defaultConfig,
      WithPdf(defaultConfig, [headerTemplate |-> Str("<h>")]),
      WithPdf(defaultConfig, [footerTemplate |-> Str("<f>"),
                              displayHeaderFooter |-> Bool(FALSE)]),
      With(defaultConfig, [dest |-> Str("out.pdf"), math_engine |-> Str("katex"),
                           css |-> UserCss, as_html |-> Bool(TRUE),
                           devtools |-> Bool(TRUE)]),
      With(defaultConfig, [stylesheet |-> Str("d.css"), body_class |-> Str(""),
                           script |-> Arr(<< Str("a.js") >>),
                           marked_extensions |-> Undef]) }

FullFrontMatter ==
    [ dest |-> Str("fm.pdf"), as_html |-> Bool(TRUE), math_engine |-> Str("katex"),
      highlight_style |-> Str("monokai"), css |-> Text(<< TextTok("h1{}") >>),
      stylesheet |-> Str("y.css"), body_class |-> Arr(<< Str("fm") >>),
      pdf_options |-> PdfOptions([ scale |-> Num("2"), margin |-> Str("10mm") ]) ]

MergeFrontMatters ==
    { FrontMatterError, NoArgs, FullFrontMatter,
      [pdf_options |-> PdfOptions([scale |-> Num("2")])],
      [pdf_options |-> PdfOptions([headerTemplate |-> Str("<h>")])],
      [pdf_options |-> PdfOptions([footerTemplate |-> Str("<f>")])],
      [pdf_options |-> PdfOptions([headerTemplate |-> Str("<h>"),
                                   displayHeaderFooter |-> Bool(FALSE)])],
      [pdf_options |-> PdfOptions([headerTemplate |-> Str("")])],
      [stylesheet |-> Str("x.css")],
      [stylesheet |-> Arr(<< Str("x.css"), Str("/hljs/styles/github.css"),
                             Str("x.css") >>)],
      [body_class |-> Str(""), script |-> PlainObj(<<>>)],
      [marked_extensions |-> OtherExt],
      [marked_extensions |-> markedKatex, math_engine |-> Str("katex")],
      [math_engine |-> Str("katex")],
      [math_engine |-> Str("none")],
      [as_html |-> Bool(TRUE)] }

FullArgs ==
    [k \in Range(ArgKeys) |->
        CASE k = "--dest"            -> Str("cli.pdf")
          [] k = "--as-html"         -> Bool(TRUE)
          [] k = "--math-engine"     -> Str("katex")
          [] k = "--highlight-style" -> Str("monokai")
          [] k = "--css"             -> Text(<< TextTok("p{}") >>)
          [] k = "--stylesheet"      -> Arr(<< Str("z.css") >>)
          [] k = "--body-class"      -> Arr(<< Str("cli") >>)
          [] k = "--pdf-options"     -> Json(PdfOptions([format |-> Str("A5")]))]

Only(args, keys) == [k \in keys |-> args[k]]

MergeArgs ==
    { NoArgs, FullArgs,
      Only(FullArgs, {"--dest"}), Only(FullArgs, {"--math-engine"}),
      Only(FullArgs, {"--css", "--math-engine"}),
      Only(FullArgs, {"--highlight-style", "--as-html"}),
      Only(FullArgs, {"--pdf-options"}),
      [k \in {"--pdf-options"} |-> Json(PdfOptions([headerTemplate |-> Str("<h>")]))],
      [k \in {"--pdf-options"} |-> Json(PdfOptions([margin |-> Str("5mm")]))],
      [k \in {"--pdf-options"} |-> BadJson],
      [k \in {"--stylesheet"} |-> Str("x.css")],
      [k \in {"--body-class"} |-> Str("dark")] }

MergeInputs ==
    [ input : {"path", "content"}, frontMatter : MergeFrontMatters, args : MergeArgs ]

CssInputs ==
    [ input : {"path", "content"}, frontMatter : {FrontMatterError, NoArgs},
      args : { [k \in {"--math-engine"} |-> Str("katex")] } ]

(***************************************************************************)
(* Specifications.                                                         *)
(***************************************************************************)
InitFrom(Files, Defaults) ==
    /\ katexFile \in Files
    /\ cachedKatexCss = NoText
    /\ configsWithKatexCss = {}
    /\ \E d \in Defaults : heap = [id \in ObjIds |-> IF id = "caller" THEN d ELSE EmptyConfig]
    /\ pc = [p \in Convs |-> "idle"]
    /\ call = [p \in Convs |-> NoCall]
    /\ cfg = [p \in Convs |-> p]
    /\ css = [p \in Convs |-> <<>>]
    /\ todo = [p \in Convs |-> <<>>]
    /\ katexCss = [p \in Convs |-> NoText]
    /\ reads = [p \in Convs |-> <<>>]
    /\ merged = [p \in Convs |-> EmptyConfig]
    /\ handed = [p \in Convs |-> EmptyConfig]
    /\ outcome = [p \in Convs |-> NoOutcome]
    /\ overlapped = FALSE

Step(p, Inputs) ==
    \/ Convert(p, Inputs)
    \/ ReadCss(p)
    \/ ReadFont(p)
    \/ AppendCss(p)
    \/ Resume(p)
    \/ Render(p)
    \/ Write(p)

\* conversions that may run concurrently and share the caller's configuration
Init == InitFrom({KatexCss}, ConcDefaults)

Next == \E p \in Convs : Step(p, ConcInputs)

Spec == Init /\ [][Next]_vars

\* one conversion, over the layers of configuration
InitMerge == InitFrom({KatexCss}, MergeDefaults)

NextMerge == Step("c1", MergeInputs)

SpecMerge == InitMerge /\ [][NextMerge]_vars

\* one conversion with math, over the stylesheets
InitCss == InitFrom(CssFiles, {defaultConfig})

NextCss == Step("c1", CssInputs)

SpecCss == InitCss /\ [][NextCss]_vars

(***************************************************************************)
(* What the claims speak of.                                               *)
(***************************************************************************)
\* how often the calls together have read the file f
TotalReads(f) ==
    Cardinality({ pi \in Convs \X (1..8) :
                    pi[2] \in DOMAIN reads[pi[1]] /\ reads[pi[1]][pi[2]] = f })

KatexFiles == {katexCssPath} \cup Range(fontMatches(katexFile))

\* the call got past the overlay of the invocation arguments (line 181)
Resolved(p) == pc[p] # "idle" /\ ~ArgsThrow(call[p].args)

\* the call has given its configuration to the renderers (line 208)
Handed(p) == pc[p] \in {"render", "write", "done"} \/ outcome[p].written # ""
                 \/ outcome[p].error \in {"No file is generated with --devtools.",
                                         "Failed to create HTML.", "Failed to create PDF."}

\* ensureKatexSupport has returned normally in the call
Ensured(p) == pc[p] \in {"resume", "render", "write", "done"}

HasArg(args, key) == \E a \in DOMAIN args : keyOf(a) = key

\* the value an invocation argument gives to the option `key`
ArgValue(args, key) ==
    LET a == CHOOSE a \in DOMAIN args : keyOf(a) = key
    IN  IF a \in jsonArgs THEN args[a].value ELSE args[a]

InFrontMatter(p, key) ==
    ~IsError(call[p].frontMatter) /\ key \in DOMAIN call[p].frontMatter

KatexEntries(config) ==
    Cardinality({ i \in DOMAIN config["marked_extensions"].xs :
                    isKatexExtension(config["marked_extensions"].xs[i]) })

SheetCopies(config) == Occurrences(cachedKatexCss.toks, config["css"].toks)

(***************************************************************************)
(* C1.  However many conversions call loadKatexCss before the cache is     *)
(* filled, the math stylesheet and each font file it references are read   *)
(* at most once in the process (no read having failed).                    *)
(***************************************************************************)
C1_ReadAtMostOnce ==
    (\A p \in Convs : outcome[p].error # "IOError")
        => \A f \in KatexFiles : TotalReads(f) <= 1

(***************************************************************************)
(* C2.  When ensureKatexSupport has run to its end twice, one call after   *)
(* the other, on the same configuration object with math_engine 'katex'    *)
(* (and the caller has not overwritten css in between), marked_extensions  *)
(* holds exactly one math extension and css holds the inlined stylesheet   *)
(* exactly once.                                                           *)
(***************************************************************************)
EnsuredTwice ==
    /\ ~overlapped
    /\ \A p \in Convs :
        /\ Ensured(p)
        /\ cfg[p] = "caller"
        /\ mathRequested(merged[p])
        /\ ~HasArg(call[p].args, "css")

C2_EnsureTwice ==
    EnsuredTwice =>
        /\ KatexEntries(heap["caller"]) = 1
        /\ SheetCopies(heap["caller"]) = 1

C2_Witness ==
    /\ EnsuredTwice
    /\ \A p \in Convs : pc[p] = "done"
    /\ TextTruthy(cachedKatexCss)

(***************************************************************************)
(* C3 as claimed.  In the configuration handed to the renderers, every     *)
(* option set in the defaults, the front matter and the invocation         *)
(* arguments holds the argument's value, and every option set only in the  *)
(* defaults and the front matter holds the front matter's value.           *)
(***************************************************************************)
InDefaults(p, key) == call[p].defaults[key] # UnsetValue(key)

C3_HandedIsWinningLayer ==
    \A p \in Convs : Handed(p) =>
        \A key \in ConfigKeys :
            InDefaults(p, key) /\ InFrontMatter(p, key) =>
                handed[p][key] = IF HasArg(call[p].args, key)
                                 THEN ArgValue(call[p].args, key)
                                 ELSE call[p].frontMatter[key]

(***************************************************************************)
(* C3 as amended.  Right after the invocation arguments are merged (line   *)
(* 181) every option an argument sets holds the argument's value           *)
(* (JSON-parsed for the JSON arguments), and every scalar option or css    *)
(* set in the front matter and by no argument holds the front matter's     *)
(* value; the scalar options still hold these values in the configuration  *)
(* handed to the renderers.                                                *)
(***************************************************************************)
C3_Precedence ==
    \A p \in Convs :
        /\ Resolved(p) =>
            \A key \in ConfigKeys :
                /\ HasArg(call[p].args, key) =>
                       merged[p][key] = ArgValue(call[p].args, key)
                /\ (key \in ScalarKeys \cup {"css"} /\ InFrontMatter(p, key)
                      /\ ~HasArg(call[p].args, key)) =>
                       merged[p][key] = call[p].frontMatter[key]
        /\ Handed(p) =>
            \A key \in ScalarKeys :
                /\ HasArg(call[p].args, key) =>
                       handed[p][key] = ArgValue(call[p].args, key)
                /\ (InFrontMatter(p, key) /\ ~HasArg(call[p].args, key)) =>
                       handed[p][key] = call[p].frontMatter[key]

C3_Witness ==
    \E p \in Convs :
        /\ Handed(p)
        /\ InDefaults(p, "dest") /\ InFrontMatter(p, "dest")
        /\ HasArg(call[p].args, "dest")
        /\ call[p].frontMatter["dest"] # ArgValue(call[p].args, "dest")
        /\ handed[p]["dest"] = ArgValue(call[p].args, "dest")

(***************************************************************************)
(* C4.  After the three layers are merged (line 181), body_class, script,  *)
(* stylesheet and marked_extensions each hold a sequence, whatever the     *)
(* layers hold.                                                            *)
(***************************************************************************)
C4_ListsAfterMerge ==
    \A p \in Convs : Resolved(p) =>
        \A i \in DOMAIN arrayOptions : isArray(merged[p][arrayOptions[i]])

(***************************************************************************)
(* C5.  pdf_options is merged field by field: after the three layers are   *)
(* merged, every field holds the value of the highest layer that sets it   *)
(* (arguments over front matter over defaults).                            *)
(***************************************************************************)
ArgPdf(p) ==
    IF HasArg(call[p].args, "pdf_options")
    THEN ArgValue(call[p].args, "pdf_options") ELSE NoPdfOptions

FrontMatterPdf(p) ==
    IF InFrontMatter(p, "pdf_options")
    THEN call[p].frontMatter["pdf_options"] ELSE NoPdfOptions

\* the value the layers give to the field f of pdf_options, the highest first
LayeredPdf(p, f) ==
    IF ArgPdf(p)[f] # Undef THEN ArgPdf(p)[f]
    ELSE IF FrontMatterPdf(p)[f] # Undef THEN FrontMatterPdf(p)[f]
    ELSE call[p].defaults["pdf_options"][f]

C5_FieldWise ==
    \A p \in Convs : Resolved(p) =>
        \A f \in PdfFields \ {"displayHeaderFooter"} :
            merged[p]["pdf_options"][f] = LayeredPdf(p, f)

(***************************************************************************)
(* C6.  In the configuration handed to the renderers: when a header or     *)
(* footer template is set in pdf_options and no layer sets                 *)
(* displayHeaderFooter, it is true; when a layer sets it, it holds the     *)
(* value set.                                                              *)
(***************************************************************************)
C6_DisplayHeaderFooter ==
    \A p \in Convs : Handed(p) =>
        LET o == handed[p]["pdf_options"]
        IN  IF LayeredPdf(p, "displayHeaderFooter") # Undef
            THEN o["displayHeaderFooter"] = LayeredPdf(p, "displayHeaderFooter")
            ELSE (Truthy(o["headerTemplate"]) \/ Truthy(o["footerTemplate"]))
                     => o["displayHeaderFooter"] = Bool(TRUE)

(***************************************************************************)
(* C7.  Once a call of loadKatexCss has succeeded (the cache is filled),   *)
(* the cached stylesheet never changes, and every call that starts later   *)
(* is answered with the cached stylesheet without entering a read; files   *)
(* are read only by calls that stand at a read.                            *)
(***************************************************************************)
C7_CachedAfterFirstLoad ==
    [][ /\ TextTruthy(cachedKatexCss) => cachedKatexCss' = cachedKatexCss
        /\ \A p \in Convs :
            /\ (TextTruthy(cachedKatexCss) /\ pc[p] = "idle") =>
                   /\ pc'[p] \notin {"read_css", "read_font"}
                   /\ pc'[p] = "append_css" => katexCss'[p] = cachedKatexCss
            /\ pc[p] \notin {"read_css", "read_font"} => reads'[p] = reads[p]
      ]_vars

\* a call answered from the cache that another call's reads had filled
C7_Witness ==
    \E p, q \in Convs :
        /\ pc[p] = "append_css" /\ reads[p] = <<>>
        /\ katexCss[p] = cachedKatexCss /\ TextTruthy(cachedKatexCss)
        /\ pc[q] = "done" /\ reads[q] # <<>>

(***************************************************************************)
(* C8.  The stylesheet loadKatexCss returns is the file with every         *)
(* url(fonts/...) reference - unquoted, single-quoted or double-quoted -   *)
(* replaced by a data: URI of the font's MIME type: references to the same *)
(* path become the same URI, every other token is kept, no such reference  *)
(* remains, and each referenced font is read exactly once.                 *)
(***************************************************************************)
\* a reference url(fonts/<path>) in one of the three quote styles
IsFontReference(tok) ==
    /\ tok.k = "url"
    /\ tok.path.dir = "fonts"
    /\ \/ tok.open = "" /\ tok.close = ""
       \/ tok.open = "'" /\ tok.close = "'"
       \/ tok.open = "\"" /\ tok.close = "\""

\* the MIME type the extension of the referenced font calls for
ExpectedMime(path) ==
    CASE path = FontA -> "font/woff2"
      [] path = FontB -> "font/woff"
      [] path = FontC -> "font/ttf"
      [] OTHER        -> "application/octet-stream"

\* the call has loaded the stylesheet itself and holds the result
Loaded(p) == pc[p] = "append_css" /\ reads[p] # <<>>

C8_AllReferencesInlined ==
    \A p \in Convs : Loaded(p) =>
        LET out == katexCss[p].toks
        IN  /\ Len(out) = Len(katexFile)
            /\ \A i \in DOMAIN katexFile :
                IF IsFontReference(katexFile[i])
                THEN /\ out[i].k = "data"
                     /\ out[i].mime = ExpectedMime(katexFile[i].path)
                     /\ out[i].data = toBase64(FontData(katexFile[i].path))
                     /\ \A j \in DOMAIN katexFile :
                            (IsFontReference(katexFile[j])
                               /\ katexFile[j].path = katexFile[i].path)
                                => out[j] = out[i]
                ELSE out[i] = katexFile[i]
            /\ \A i \in DOMAIN out : ~IsFontReference(out[i])
            /\ \A f \in {katexFile[i].path : i \in {j \in DOMAIN katexFile :
                                                      IsFontReference(katexFile[j])}} :
                   Cardinality({i \in DOMAIN reads[p] : reads[p][i] = f}) = 1
            /\ cachedKatexCss = katexCss[p]

\* the same font referenced twice in two quote styles, and another font
C8_Witness ==
    \E p \in Convs :
        /\ Loaded(p)
        /\ \E i, j, k \in DOMAIN katexFile :
            /\ i # j
            /\ IsFontReference(katexFile[i]) /\ IsFontReference(katexFile[j])
            /\ IsFontReference(katexFile[k])
            /\ katexFile[i].path = katexFile[j].path
            /\ katexFile[i].open # katexFile[j].open
            /\ katexFile[k].path # katexFile[i].path
            /\ katexCss[p].toks[i] = katexCss[p].toks[j]
            /\ katexCss[p].toks[k] # katexCss[p].toks[i]

(***************************************************************************)
(* C9.  In the configuration handed to the renderers, dest is the value    *)
(* the highest layer sets (arguments over front matter over the caller's   *)
(* configuration); when no layer sets it, it is the HTML sibling of a      *)
(* file input with as_html set, the PDF sibling of a file input otherwise, *)
(* and 'stdout' for content given in memory.                               *)
(***************************************************************************)
\* the value the layers give to a scalar option, the highest first
Layered(p, key) ==
    IF HasArg(call[p].args, key) THEN ArgValue(call[p].args, key)
    ELSE IF InFrontMatter(p, key) THEN call[p].frontMatter[key]
    ELSE call[p].defaults[key]

C9_Dest ==
    \A p \in Convs : Handed(p) =>
        handed[p]["dest"] =
            IF Layered(p, "dest") # Undef THEN Layered(p, "dest")
            ELSE IF call[p].input = "path" /\ Layered(p, "as_html") = Bool(TRUE)
                 THEN Str("doc.html")
            ELSE IF call[p].input = "path" THEN Str("doc.pdf")
            ELSE Str("stdout")

C9_Witness ==
    /\ \E p \in Convs :
        /\ Handed(p) /\ Layered(p, "dest") = Undef
        /\ call[p].input = "path" /\ Layered(p, "as_html") = Bool(TRUE)
        /\ handed[p]["dest"] = Str("doc.html")

(***************************************************************************)
(* C10.  A call whose front matter could not be parsed warns and goes on:  *)
(* its configuration after line 181 is the caller's with the header and    *)
(* footer inference, the list coercion and the invocation arguments        *)
(* applied, math support is activated when the resolved math_engine asks   *)
(* for it, and the call fails only for a reason of a later step.           *)
(***************************************************************************)
ExpectedWithoutFrontMatter(p, key) ==
    LET d == call[p].defaults[key]
    IN  IF HasArg(call[p].args, key) THEN ArgValue(call[p].args, key)
        ELSE IF key = "pdf_options"
        THEN [f \in PdfFields |->
                 IF f = "displayHeaderFooter" /\ d[f] = Undef
                    /\ (Truthy(d["headerTemplate"]) \/ Truthy(d["footerTemplate"]))
                 THEN Bool(TRUE) ELSE d[f]]
        ELSE IF key \in Range(arrayOptions) /\ d.t # "array"
        THEN (IF Truthy(d) THEN Arr(<< d >>) ELSE Arr(<<>>))
        ELSE d

C10_ParseErrorIgnored ==
    \A p \in Convs : (pc[p] # "idle" /\ IsError(call[p].frontMatter)) =>
        /\ outcome[p].warned
        /\ Resolved(p) =>
            \A key \in ConfigKeys : merged[p][key] = ExpectedWithoutFrontMatter(p, key)
        /\ (Ensured(p) /\ mathRequested(merged[p])) =>
            /\ KatexEntries(heap[cfg[p]]) >= 1
            /\ SheetCopies(heap[cfg[p]]) = 1
        /\ pc[p] = "failed" =>
            \/ outcome[p].error = "SyntaxError" /\ ArgsThrow(call[p].args)
            \/ outcome[p].error = "TypeError"
                 /\ \E i \in DOMAIN arrayOptions : ~isArray(merged[p][arrayOptions[i]])
            \/ outcome[p].error = "IOError"
            \/ outcome[p].error = noOutputError(handed[p])

C10_Witness ==
    \E p \in Convs :
        /\ IsError(call[p].frontMatter) /\ pc[p] = "done"
        /\ HasArg(call[p].args, "math_engine")
        /\ call[p].defaults["pdf_options"]["headerTemplate"] = Str("<h>")
        /\ handed[p]["pdf_options"]["displayHeaderFooter"] = Bool(TRUE)
        /\ SheetCopies(handed[p]) = 1

\* the call stands at an awaited read of loadKatexCss (line 72 or 83)
Reading(p) == pc[p] \in {"read_css", "read_font"}

\* the call ended because a read of loadKatexCss failed
LoadFailed(p) ==
    pc[p] = "failed" /\ outcome[p].error = "IOError" /\ outcome[p].filename = Undef

\* the stylesheet with every font reference inlined
Inlined(text) == matchAll(text) = <<>>

(***************************************************************************)
(* C11.  A read of loadKatexCss that fails ends the call with the I/O      *)
(* error: a step of a reading call that reads no file leaves the call      *)
(* failed with that error, and leaves the cache, every configuration       *)
(* (its css with it) and the marker set as they were.  The cache never     *)
(* holds a stylesheet with a font reference left in it, and a call that    *)
(* failed in the load was handed no stylesheet.                            *)
(***************************************************************************)
C11_LoadFailureIsFatal ==
    /\ [](/\ Inlined(cachedKatexCss.toks)
          /\ \A p \in Convs : LoadFailed(p) => katexCss[p] = NoText)
    /\ [][ \A p \in Convs :
             (Reading(p) /\ reads'[p] = reads[p] /\ pc'[p] # pc[p]) =>
                 /\ pc'[p] = "failed"
                 /\ outcome'[p].error = "IOError"
                 /\ cachedKatexCss' = cachedKatexCss
                 /\ heap' = heap
                 /\ configsWithKatexCss' = configsWithKatexCss
         ]_vars

\* a font could not be read after the stylesheet and another font had been:
\* the call has failed, nothing is cached, css and the marker set are as the
\* merge left them
C11_Witness ==
    \E p \in Convs :
        /\ LoadFailed(p) /\ Len(reads[p]) = 2
        /\ cachedKatexCss = NoText
        /\ configsWithKatexCss = {}
        /\ heap[cfg[p]]["css"] = merged[p]["css"]

(***************************************************************************)
(* C12.  Every configuration object in the marker set for which math       *)
(* rendering is active (math_engine is 'katex') has the inlined math       *)
(* stylesheet in its css and the math extension in marked_extensions.      *)
(***************************************************************************)
C12_MarkedHasMathAdditions ==
    \A id \in configsWithKatexCss :
        mathRequested(heap[id]) =>
            /\ SheetCopies(heap[id]) >= 1
            /\ KatexEntries(heap[id]) >= 1

\* the value the layers below the invocation arguments give to the option
BelowArgs(p, key) ==
    IF InFrontMatter(p, key) THEN call[p].frontMatter[key] ELSE call[p].defaults[key]

\* the list the claim expects of a value
Coerced(value) ==
    CASE value.t = "array" -> value
      [] Truthy(value)     -> Arr(<< value >>)
      [] OTHER             -> Arr(<<>>)

(***************************************************************************)
(* C13.  Past the coercion step (lines 164-171), each list-typed option    *)
(* that no invocation argument sets holds: the value of defaults or front  *)
(* matter itself when that is a sequence, the one-element sequence of it   *)
(* when it is truthy and not a sequence, the empty sequence when it is     *)
(* falsy or missing; and coercing that result again changes nothing.       *)
(***************************************************************************)
C13_Coercion ==
    \A p \in Convs : Resolved(p) =>
        \A i \in DOMAIN arrayOptions :
            LET option == arrayOptions[i]
            IN  ~HasArg(call[p].args, option) =>
                    /\ merged[p][option] = Coerced(BelowArgs(p, option))
                    /\ sanitize(merged[p][option]) = merged[p][option]
                    /\ sanitize(sanitize(BelowArgs(p, option)))
                           = sanitize(BelowArgs(p, option))

\* one conversion in which the coercion met a truthy scalar, a falsy scalar,
\* a missing value and a sequence
C13_Witness ==
    \E p \in Convs :
        /\ Resolved(p) /\ call[p].args = NoArgs
        /\ BelowArgs(p, "stylesheet") = Str("d.css")
        /\ merged[p]["stylesheet"] = Arr(<< Str("d.css") >>)
        /\ BelowArgs(p, "body_class") = Str("")
        /\ merged[p]["body_class"] = Arr(<<>>)
        /\ BelowArgs(p, "marked_extensions") = Undef
        /\ merged[p]["marked_extensions"] = Arr(<<>>)
        /\ merged[p]["script"] = Arr(<< Str("a.js") >>)

(***************************************************************************)
(* C14.  When generateOutput returned nothing the call has failed and      *)
(* written nothing, with the devtools error when devtools is set and       *)
(* otherwise the failure naming HTML when as_html is set and PDF when not. *)
(* When it returned output, the content went to stdout exactly when the    *)
(* filename is 'stdout', goes to the file of that name (unless the write   *)
(* itself fails) exactly when the filename is another non-empty value, and *)
(* nowhere when the filename is empty or missing.                          *)
(***************************************************************************)
C14_OutputHandling ==
    \A p \in Convs : outcome[p].rendered =>
        LET output == outcome[p].output
            empty  == output.filename \in {Undef, Str("")}
            toFile == ~empty /\ output.filename # Str("stdout")
        IN  /\ ~output.some =>
                /\ pc[p] = "failed"
                /\ outcome[p].written = ""
                /\ outcome[p].error =
                       IF Truthy(handed[p]["devtools"])
                       THEN "No file is generated with --devtools."
                       ELSE IF Truthy(handed[p]["as_html"])
                       THEN "Failed to create HTML."
                       ELSE "Failed to create PDF."
            /\ output.some =>
                /\ outcome[p].written = "stdout" <=> output.filename = Str("stdout")
                /\ outcome[p].written = "file" => toFile
                /\ toFile =>
                       \/ pc[p] = "write" /\ outcome[p].written = ""
                       \/ pc[p] = "done" /\ outcome[p].written = "file"
                            /\ outcome[p].filename = output.filename
                       \/ pc[p] = "failed" /\ outcome[p].written = ""
                            /\ outcome[p].error = "IOError"
                /\ empty => pc[p] = "done" /\ outcome[p].written = "nowhere"
                /\ pc[p] = "failed" => toFile

\* no output from a conversion with both devtools and as_html set: the
\* error is the devtools one
C14_Witness ==
    \E p \in Convs :
        /\ outcome[p].rendered /\ ~outcome[p].output.some
        /\ Truthy(handed[p]["devtools"]) /\ Truthy(handed[p]["as_html"])
        /\ outcome[p].error = "No file is generated with --devtools."
        /\ outcome[p].written = ""

\* the stylesheet entries of a configuration: the elements of a list, the
\* one path of a scalar
StylesheetEntries(config) ==
    IF isArray(config["stylesheet"]) THEN config["stylesheet"].xs
    ELSE IF Truthy(config["stylesheet"]) THEN << config["stylesheet"] >>
    ELSE <<>>

(***************************************************************************)
(* C15.  The stylesheet list handed to the renderers is the stylesheet     *)
(* entries of the resolved configuration in order of first appearance with *)
(* the highlighting stylesheet of highlight_style added behind them when   *)
(* it is not among them; it has no entry twice and the highlighting        *)
(* stylesheet once, whichever layer supplied stylesheet.                   *)
(***************************************************************************)
C15_StylesheetList ==
    \A p \in Convs : Handed(p) =>
        LET list == handed[p]["stylesheet"].xs
            hl   == highlightStylesheet(merged[p])
        IN  /\ list = Dedup(StylesheetEntries(merged[p]) \o << hl >>)
            /\ Cardinality(Range(list)) = Len(list)
            /\ Cardinality({i \in DOMAIN list : list[i] = hl}) = 1

(***************************************************************************)
(* C16.  A conversion whose math_engine after line 181 is not 'katex'      *)
(* passes ensureKatexSupport without effect: marked_extensions and css are *)
(* as the merge left them, the marker set and the cached stylesheet are    *)
(* as they were (empty and unset, the conversion being the only one), and  *)
(* no file has been read.                                                  *)
(***************************************************************************)
C16_NoMathNoOp ==
    \A p \in Convs :
        (Resolved(p) /\ merged[p]["math_engine"] # Str("katex")) =>
            /\ pc[p] \notin {"read_css", "read_font", "append_css"}
            /\ heap[cfg[p]]["marked_extensions"] = merged[p]["marked_extensions"]
            /\ heap[cfg[p]]["css"] = merged[p]["css"]
            /\ configsWithKatexCss = {}
            /\ cachedKatexCss = NoText
            /\ reads[p] = <<>>

\* a conversion whose defaults ask for math and whose front matter turns it
\* off: it was rendered with css and marked_extensions as merged
C16_Witness ==
    \E p \in Convs :
        /\ pc[p] = "done"
        /\ call[p].defaults["math_engine"] = Str("katex")
        /\ merged[p]["math_engine"] = Str("none")
        /\ heap[cfg[p]]["css"] = UserCss
        /\ heap[cfg[p]]["marked_extensions"] = Arr(<<>>)
        /\ reads[p] = <<>> /\ configsWithKatexCss = {}

(***************************************************************************)
(* C17.  Merge, math activation, normalisation and rendering follow one    *)
(* another: while ensureKatexSupport awaits the stylesheet the margin and  *)
(* dest are still as the merge left them, and the configuration the        *)
(* renderers are given has a margin that is no string, a dest that is      *)
(* defined, and - when math_engine is 'katex' - the math extension, the    *)
(* math stylesheet in css and its object in the marker set.                *)
(***************************************************************************)
C17_PipelineOrder ==
    \A p \in Convs :
        /\ pc[p] \in {"read_css", "read_font", "append_css"} =>
            /\ heap[cfg[p]]["pdf_options"] = merged[p]["pdf_options"]
            /\ heap[cfg[p]]["dest"] = merged[p]["dest"]
        /\ Handed(p) =>
            /\ handed[p]["pdf_options"]["margin"].t # "string"
            /\ merged[p]["pdf_options"]["margin"].t = "string" =>
                   handed[p]["pdf_options"]["margin"]
                       = getMarginObject(merged[p]["pdf_options"]["margin"])
            /\ handed[p]["dest"] # Undef
            /\ handed[p]["math_engine"] = Str("katex") =>
                /\ KatexEntries(handed[p]) >= 1
                /\ SheetCopies(handed[p]) >= 1
                /\ cfg[p] \in configsWithKatexCss

\* the renderers were given a configuration whose margin came as a string
\* from the --pdf-options override, whose dest was unset and whose math
\* support was loaded by this conversion
C17_Witness ==
    \E p \in Convs :
        /\ pc[p] = "render"
        /\ HasArg(call[p].args, "pdf_options")
        /\ merged[p]["pdf_options"]["margin"] = Str("5mm")
        /\ handed[p]["pdf_options"]["margin"] = getMarginObject(Str("5mm"))
        /\ merged[p]["dest"] = Undef /\ handed[p]["dest"] # Undef
        /\ handed[p]["math_engine"] = Str("katex") /\ reads[p] # <<>>

\* two calls of ensureKatexSupport on the caller's object that overlapped
\* and have both returned, no argument having overwritten css
EnsuredOverlapping ==
    /\ overlapped
    /\ \A p \in Convs :
        /\ Ensured(p)
        /\ cfg[p] = "caller"
        /\ merged[p]["math_engine"] = Str("katex")
        /\ ~HasArg(call[p].args, "css")

(***************************************************************************)
(* C18.  When calls of ensureKatexSupport on one configuration object      *)
(* overlap at the awaited stylesheet load and have all returned, css holds *)
(* the inlined math stylesheet exactly once and marked_extensions holds    *)
(* the math extension exactly once.                                        *)
(***************************************************************************)
C18_OverlappingEnsure ==
    EnsuredOverlapping =>
        /\ SheetCopies(heap["caller"]) = 1
        /\ KatexEntries(heap["caller"]) = 1

\* the calls made so far ran one after the other, all on the caller's
\* object with math_engine 'katex', none overwriting css by an argument
OneAfterTheOther ==
    /\ ~overlapped
    /\ \A p \in Convs : pc[p] # "idle" =>
        /\ cfg[p] = "caller"
        /\ Resolved(p)
        /\ merged[p]["math_engine"] = Str("katex")
        /\ ~HasArg(call[p].args, "css")

\* the inlined stylesheet, as loadKatexCss returns it for the file on disk
RECURSIVE InlineAll(_, _)
InlineAll(text, fonts) ==
    IF fonts = <<>> THEN text
    ELSE InlineAll(inlineFont(text, Head(fonts)), Tail(fonts))

MathSheetCopies(config) ==
    Occurrences(InlineAll(katexFile, fontMatches(katexFile)), config["css"].toks)

(***************************************************************************)
(* C19.  Through any sequence of failed and successful calls of            *)
(* ensureKatexSupport on one configuration object, made one after the      *)
(* other, marked_extensions holds at most one math extension and css       *)
(* holds the math stylesheet at most once; as soon as one of the calls     *)
(* has returned normally both are there exactly once.                      *)
(***************************************************************************)
C19_RetryAfterFailure ==
    OneAfterTheOther =>
        /\ KatexEntries(heap["caller"]) <= 1
        /\ MathSheetCopies(heap["caller"]) <= 1
        /\ (\E p \in Convs : Ensured(p)) =>
            /\ KatexEntries(heap["caller"]) = 1
            /\ MathSheetCopies(heap["caller"]) = 1

\* the first call failed in the load, after the extension was appended; the
\* second call on the same object has succeeded
C19_Witness ==
    /\ OneAfterTheOther
    /\ \E p, q \in Convs :
        /\ LoadFailed(p) /\ reads[p] # <<>>
        /\ Ensured(q) /\ reads[q] # <<>>
        /\ KatexEntries(heap["caller"]) = 1
        /\ MathSheetCopies(heap["caller"]) = 1

(***************************************************************************)
(* C20.  The configuration object the caller passed is, at every point of  *)
(* a conversion and after it, as it was when convertMdToPdf was called:    *)
(* its pdf_options, css, list-valued options and every other option.       *)
(***************************************************************************)
C20_CallerConfigUnchanged ==
    \A p \in Convs : pc[p] # "idle" => heap["caller"] = call[p].defaults

=============================================================================
